---- MODULE Spec2Model ----
(***************************************************************************)
(* Query-resolution pipeline of sportnearby-be (src/app): the LangGraph    *)
(* state machine classify -> dates -> location -> search -> post, its      *)
(* error handler, the HTTP handler that wraps it, and the date sanity      *)
(* check of the oracle client.                                             *)
(*                                                                         *)
(* Conventions                                                             *)
(*  - a Python Optional value is a record [k, v]: k = "null" is None,      *)
(*    k = "num" a number, k = "iso" an ISO date string, k = "bad" a string *)
(*    that datetime.fromisoformat rejects;                                 *)
(*  - a date is its offset in days from today (today = 0);                 *)
(*  - latitude and longitude are in tenths of a degree;                    *)
(*  - a query text is a sequence of one-character strings;                 *)
(*  - a processing step is [tag, arg]: tag is the fixed part of the step   *)
(*    string, arg the interpolated part that comes from outside.           *)
(***************************************************************************)
EXTENDS Integers, Sequences, FiniteSets, TLC

VARIABLES
    pc,               \* node the graph runs next, "END", or "DONE" once the HTTP handler answered
    q,                \* AgentState.q
    user_lat,         \* AgentState.user_lat
    user_lon,         \* AgentState.user_lon
    limit,            \* AgentState.limit
    intent,           \* AgentState.intent
    slots,            \* AgentState.slots
    date_from,        \* AgentState.date_from
    date_to,          \* AgentState.date_to
    date_status,      \* AgentState.date_status
    coords,           \* AgentState.coords
    radius_km,        \* AgentState.radius_km
    results,          \* AgentState.results
    error,            \* AgentState.error
    error_message,    \* AgentState.error_message
    processing_steps, \* AgentState.processing_steps
    calls,            \* tool invocations made so far, per tool
    response,         \* what agent_query returned or raised
    obj,              \* the oracle's JSON answer handed to resolve_date_range
    dr,               \* the DateRangeOut resolve_date_range returned
    classified,       \* the answer of the classify oracle call, once made
    geocoded,         \* geocode_text_tool invocations so far: what was asked and what came back
    searched,         \* db_find_near_tool invocations so far: the arguments and the rows or the failure
    parked,           \* the frame of the request whose coroutine is suspended, if there is one
    running           \* which request's coroutine the event loop is running

\* everything that belongs to the running request: its position, its
\* AgentState, its HTTP answer and the calls made for it
frame == <<pc, q, user_lat, user_lon, limit, intent, slots, date_from, date_to,
           date_status, coords, radius_km, results, error, error_message,
           processing_steps, calls, response, obj, dr, classified, geocoded, searched>>

vars == <<pc, q, user_lat, user_lon, limit, intent, slots, date_from, date_to,
          date_status, coords, radius_km, results, error, error_message,
          processing_steps, calls, response, obj, dr, classified, geocoded, searched,
          parked, running>>

\* what a node or a handler of the running request cannot reach
suspended == <<parked, running>>

agent == <<q, user_lat, user_lon, limit>>

(***************************************************************************)
(* Python values                                                           *)
(***************************************************************************)
None == "None"
Null == [k |-> "null", v |-> 0]
Num(x) == [k |-> "num", v |-> x]
Iso(d) == [k |-> "iso", v |-> d]
BadStr == [k |-> "bad", v |-> 0]

\* bool(x) of an Optional number or string
Truthy(x) == x.k # "null" /\ ~(x.k = "num" /\ x.v = 0)

Abs(x) == IF x < 0 THEN 0 - x ELSE x

Min(a, b) == IF a < b THEN a ELSE b

Step(tag, arg) == [tag |-> tag, arg |-> arg]

(***************************************************************************)
(* Bounds and input sets                                                   *)
(***************************************************************************)
MaxCities == 2

\* "" , whitespace only, one character with and without padding, and texts
\* with two non-whitespace characters
Queries ==
    { <<>>, <<" ">>, <<"a">>, <<" ", "a">>, <<"a", " ">>, <<" ", " ">>,
      <<"a", "b">>, <<"a", " ", "b">> }

Brussels == [lat |-> 509, lon |-> 44]
Paris == [lat |-> 489, lon |-> 24]

\* caller coordinate: none, latitude only, both
UserCoords == { <<Null, Null>>, <<Num(509), Null>>, <<Num(509), Num(44)>> }

Limits == {1, 2}

CityNames == {"Brussels", "brussels"}

RECURSIVE SeqsUpTo(_, _)
SeqsUpTo(S, n) ==
    IF n = 0 THEN { <<>> }
    ELSE LET shorter == SeqsUpTo(S, n - 1)
         IN shorter \cup { Append(s, x) : s \in shorter, x \in S }

ExcTexts == {"timeout", "connection refused"}

(***************************************************************************)
(* AgentState (graph_state.py)                                             *)
(***************************************************************************)
AgentStateFields ==
    { "q", "user_lat", "user_lon", "limit", "intent", "slots", "date_from",
      "date_to", "date_status", "coords", "radius_km", "results", "error",
      "error_message", "processing_steps" }

\* pydantic accepts state.<name> = ... and state.<name> only for a declared
\* field; any other name raises (ValueError on write, AttributeError on read)
HasField(name) == name \in AgentStateFields

DefaultLimit == 20
DefaultRadiusKm == 25

has_error_Never(err) == FALSE

has_error(err) == err # None

\* state.slots before classification: {} ; .get() of a missing key is None
EmptySlots ==
    [cities |-> <<>>, competitions |-> <<>>, venues |-> <<>>,
     radius_km |-> Null, sort |-> None]

\* set_error: error, error_message and one "ERROR: ..." step
ErrorStep(code, text) == Step("ERROR", <<code, text>>)

(***************************************************************************)
(* Text helpers                                                            *)
(***************************************************************************)
IsSpace(c) == c = " "

RECURSIVE lstrip(_)
lstrip(s) == IF s # <<>> /\ IsSpace(Head(s)) THEN lstrip(Tail(s)) ELSE s

RECURSIVE rstrip(_)
rstrip(s) ==
    IF s # <<>> /\ IsSpace(s[Len(s)]) THEN rstrip(SubSeq(s, 1, Len(s) - 1)) ELSE s

strip(s) == rstrip(lstrip(s))

NonWhitespace(s) == Cardinality({ i \in 1..Len(s) : ~IsSpace(s[i]) })

MinQueryLen == 2

QueryTooShort_NoStrip(text) == text = <<>> \/ Len(text) < MinQueryLen

\* n_classify: not state.q or len(state.q.strip()) < 2
QueryTooShort(text) == text = <<>> \/ Len(strip(text)) < MinQueryLen

(***************************************************************************)
(* Oracle: classify_intent (llm_client.py, models.py)                      *)
(***************************************************************************)
Intents ==
    { "events_near", "events_in_cities", "events_by_competition",
      "events_by_venue", "next_at_venue", "venues_near", "list_competitions",
      "events_by_timeframe", "unclear_query" }

\* intents the oracle answers in this model; "weather" is outside the enum
OracleIntents == { "events_in_cities", "list_competitions", "unclear_query", "weather" }

OracleRadii == { Null, Num(0), Num(500) }

OracleSorts == { None, "time" }

\* (competitions, venues) named in the answer
OracleFilters ==
    { << <<>>, <<>> >>, << <<"Pro League">>, <<>> >>, << <<>>, <<"Nowhere Arena">> >> }

OracleSlots ==
    { [cities |-> c, competitions |-> f[1], venues |-> f[2], radius_km |-> r, sort |-> s] :
        c \in SeqsUpTo(CityNames, MaxCities), f \in OracleFilters,
        r \in OracleRadii, s \in OracleSorts }

\* an answer of the classify call: the HTTP call fails (net is the exception
\* text) or yields a JSON object
ClassifyResponses ==
    { [net |-> e, intent |-> None, slots |-> EmptySlots] : e \in ExcTexts }
    \cup { [net |-> "ok", intent |-> i, slots |-> s] : i \in OracleIntents, s \in OracleSlots }

\* classify_intent: raise_for_status / json.loads raise; IntentDecision(**obj)
\* raises on an intent outside the enum
classify_intent_GuessesOnFailure(resp) ==
    IF resp.net # "ok" \/ resp.intent \notin Intents
    THEN [raised |-> FALSE, exc |-> "", intent |-> "events_near", slots |-> EmptySlots]
    ELSE [raised |-> FALSE, exc |-> "", intent |-> resp.intent, slots |-> resp.slots]

classify_intent_AcceptsAnyIntent(resp) ==
    IF resp.net # "ok" THEN [raised |-> TRUE, exc |-> resp.net, intent |-> None, slots |-> EmptySlots]
    ELSE [raised |-> FALSE, exc |-> "", intent |-> resp.intent, slots |-> resp.slots]

classify_intent(resp) ==
    IF resp.net # "ok" THEN [raised |-> TRUE, exc |-> resp.net, intent |-> None, slots |-> EmptySlots]
    ELSE IF resp.intent \notin Intents
         THEN [raised |-> TRUE, exc |-> "validation error", intent |-> None, slots |-> EmptySlots]
         ELSE [raised |-> FALSE, exc |-> "", intent |-> resp.intent, slots |-> resp.slots]

(***************************************************************************)
(* Oracle: resolve_date_range (llm_client.py)                              *)
(***************************************************************************)
DateStatuses == { "OK", "UNCLEAR", "NO_TIME" }

TimeKeywords ==
    { "today", "tonight", "tomorrow", "this_weekend", "next_weekend", "this_week",
      "next_week", "weeks_ahead", "next_year", "soon", "later" }

MaxDayDeviation == 500

Today == 0

FallbackDays == 10

DateObj(net, status, kw, f, t, conf) ==
    [net |-> net, status |-> status, time_keyword |-> kw, date_from |-> f,
     date_to |-> t, confidence |-> conf]

DateRangeOut(status, kw, f, t, conf) ==
    [raised |-> FALSE, exc |-> "", status |-> status, time_keyword |-> kw,
     date_from |-> f, date_to |-> t, confidence |-> conf]

DateRaised(text) ==
    [raised |-> TRUE, exc |-> text, status |-> None, time_keyword |-> None,
     date_from |-> Null, date_to |-> Null, confidence |-> 0]

NoDateRange == DateRaised("")

\* datetime.fromisoformat(s).date() succeeds
Parses(s) == s.k = "iso"

Coerced(o) == DateRangeOut("UNCLEAR", o.time_keyword, Null, Null, o.confidence)

\* llm_client.py 189-204: the check runs only when status is OK and both
\* dates are truthy
sanity_check(o) ==
    IF o.status = "OK" /\ Truthy(o.date_from) /\ Truthy(o.date_to)
    THEN IF ~(Parses(o.date_from) /\ Parses(o.date_to)) THEN Coerced(o)
         ELSE IF o.date_from.v > o.date_to.v THEN Coerced(o)
         ELSE IF Abs(o.date_from.v - Today) > MaxDayDeviation
                 \/ Abs(o.date_to.v - Today) > MaxDayDeviation
              THEN Coerced(o)
              ELSE DateRangeOut(o.status, o.time_keyword, o.date_from, o.date_to, o.confidence)
    ELSE DateRangeOut(o.status, o.time_keyword, o.date_from, o.date_to, o.confidence)

\* resolve_date_range: the HTTP call or DateRangeOut(**obj) raises, else the
\* sanity-checked range
resolve_date_range(o) ==
    IF o.net # "ok" THEN DateRaised(o.net)
    ELSE IF o.status \notin DateStatuses
            \/ o.time_keyword \notin (TimeKeywords \cup {None})
            \/ o.confidence < 0 \/ o.confidence > 100
         THEN DateRaised("validation error")
         ELSE sanity_check(o)

OracleDateValues == { Null, BadStr, Iso(0 - 501), Iso(0), Iso(1), Iso(500), Iso(501) }

\* every answer the date oracle may give (specification SpecDates)
OracleDateObjs ==
    { DateObj(e, None, None, Null, Null, 0) : e \in ExcTexts }
    \cup { DateObj("ok", s, kw, f, t, c) :
             s \in DateStatuses \cup {"MAYBE"}, kw \in {None, "tomorrow"},
             f \in OracleDateValues, t \in OracleDateValues, c \in {0, 100} }

\* the answers the pipeline specification draws from
PipelineDateObjs ==
    { DateObj("timeout", None, None, Null, Null, 0),
      DateObj("ok", "NO_TIME", None, Null, Null, 100),
      DateObj("ok", "UNCLEAR", "soon", Null, Null, 100),
      DateObj("ok", "OK", "tomorrow", Iso(1), Iso(1), 100),
      DateObj("ok", "OK", "this_week", Iso(1), Iso(0), 100),
      DateObj("ok", "OK", None, Null, Iso(501), 100) }

(***************************************************************************)
(* Oracle: geocode (llm_client.py)                                         *)
(***************************************************************************)
GeocodeOut(status, lat, lon, conf) ==
    [status |-> status, lat |-> lat, lon |-> lon, confidence |-> conf]

\* geocode never raises: after its retries it returns UNKNOWN
GeoAnswers ==
    { GeocodeOut("UNKNOWN", Null, Null, 0),
      GeocodeOut("OK", Num(Brussels.lat), Num(Brussels.lon), 100),
      GeocodeOut("OK", Num(Paris.lat), Num(Paris.lon), 20) }

\* n_location: g["status"] == "OK" and g["lat"] and g["lon"]
GeoUsable(g) == g.status = "OK" /\ Truthy(g.lat) /\ Truthy(g.lon)

Coord(lat, lon) == [lat |-> lat, lon |-> lon]

(***************************************************************************)
(* Store (db.py): three events at three venues, two competitions           *)
(***************************************************************************)
Lower(name) ==
    CASE name = "Pro League" -> "pro league"
      [] name = "Lotto Park" -> "lotto park"
      [] OTHER -> name

CompetitionTable ==
    << [id |-> 1, name |-> "pro league"], [id |-> 2, name |-> "lotto volley"] >>

VenueTable ==
    << [id |-> 1, name |-> "lotto park", lat |-> 509, lon |-> 44],
       [id |-> 2, name |-> "sportpaleis", lat |-> 510, lon |-> 40],
       [id |-> 3, name |-> "ghelamco arena", lat |-> 511, lon |-> 37] >>

\* datetime_local orders the events 3, 1, 2; the table order is 1, 2, 3
EventTable ==
    << [id |-> 1, day |-> 0, datetime_local |-> 20, competition_id |-> 1, venue_id |-> 1],
       [id |-> 2, day |-> 3, datetime_local |-> 320, competition_id |-> 2, venue_id |-> 2],
       [id |-> 3, day |-> 0, datetime_local |-> 15, competition_id |-> 1, venue_id |-> 3] >>

Range(s) == { s[i] : i \in 1..Len(s) }

\* competition_ids_by_names / venue_ids_by_names: LOWER(name) = ANY(names)
ids_by_names(table, names) ==
    LET wanted == { Lower(n) : n \in Range(names) }
    IN SelectSeq([i \in 1..Len(table) |-> table[i].id],
                 LAMBDA id : \E i \in 1..Len(table) : table[i].id = id /\ table[i].name \in wanted)

\* ST_Distance(...)/1000 on the grid of tenths of a degree: 11 km per tenth
\* of latitude, 7 km per tenth of longitude
distance_km(lat, lon, venue) == 11 * Abs(lat - venue.lat) + 7 * Abs(lon - venue.lon)

\* key of sorted(): datetime_local for "time", distance_km otherwise
SortKey(row, sort) == IF sort = "time" THEN row.datetime_local ELSE row.distance_km

RECURSIVE InsertSorted_Unstable(_, _, _)
InsertSorted_Unstable(row, s, sort) ==
    IF s = <<>> THEN <<row>>
    ELSE IF SortKey(Head(s), sort) < SortKey(row, sort)
         THEN <<Head(s)>> \o InsertSorted_Unstable(row, Tail(s), sort)
         ELSE <<row>> \o s

\* insert row behind every element whose key is <= its key (stable)
RECURSIVE InsertSorted(_, _, _)
InsertSorted(row, s, sort) ==
    IF s = <<>> THEN <<row>>
    ELSE IF SortKey(Head(s), sort) <= SortKey(row, sort)
         THEN <<Head(s)>> \o InsertSorted(row, Tail(s), sort)
         ELSE <<row>> \o s

\* sorted(rows, key=...)
RECURSIVE sorted(_, _)
sorted(rows, sort) ==
    IF rows = <<>> THEN <<>>
    ELSE InsertSorted(rows[Len(rows)], sorted(SubSeq(rows, 1, Len(rows) - 1), sort), sort)

Take_NoLimit(rows, n) == rows

\* rows[:n]
Take(rows, n) == SubSeq(rows, 1, Min(n, Len(rows)))

SearchLimit == 50

MaxSearchCoords == 5

\* the placeholders of the competition and venue filters skip one number, so
\* the statement has a parameter without a value and the query raises
find_events_near_raises(df, dt, competition_ids, venue_ids) ==
    \/ competition_ids # <<>>
    \/ venue_ids # <<>>
    \/ (Truthy(df) /\ ~Parses(df))
    \/ (Truthy(dt) /\ ~Parses(dt))

\* ORDER BY distance_km ASC; rows at the same distance stay in table order
order_by_distance(rows) ==
    LET before(j, i) == \/ rows[j].distance_km < rows[i].distance_km
                        \/ (rows[j].distance_km = rows[i].distance_km /\ j < i)
        rank(i) == Cardinality({ j \in 1..Len(rows) : before(j, i) }) + 1
    IN [k \in 1..Len(rows) |-> rows[CHOOSE i \in 1..Len(rows) : rank(i) = k]]

\* the SELECT of find_events_near_db on given tables: radius and date
\* predicates, ORDER BY distance_km ASC LIMIT
find_events_in(events, venues, lat, lon, radius, df, dt, lim) ==
    LET venue(e) == CHOOSE v \in Range(venues) : v.id = e.venue_id
        row(e) == [id |-> e.id, datetime_local |-> e.datetime_local,
                   distance_km |-> distance_km(lat, lon, venue(e)),
                   competition_id |-> e.competition_id, venue_id |-> e.venue_id]
        match(e) == /\ distance_km(lat, lon, venue(e)) <= radius
                    /\ (Truthy(df) => e.day >= df.v)
                    /\ (Truthy(dt) => e.day <= dt.v)
        hits == SelectSeq(events, match)
    IN Take(order_by_distance([i \in 1..Len(hits) |-> row(hits[i])]), lim)

find_events_near_db(lat, lon, radius, df, dt, lim) ==
    find_events_in(EventTable, VenueTable, lat, lon, radius, df, dt, lim)

\* list_competitions_db
list_competitions_db == CompetitionTable

(***************************************************************************)
(* Result aggregation (nodes.py n_search 197-204, n_post 223-232)          *)
(***************************************************************************)
Upsert_KeepFirst(best, row) ==
    IF \E i \in 1..Len(best) : best[i].id = row.id THEN best ELSE Append(best, row)

\* best[rid] = row if rid is new or row is nearer; a dict keeps the position
\* of the first insertion
Upsert(best, row) ==
    IF \E i \in 1..Len(best) : best[i].id = row.id
    THEN [i \in 1..Len(best) |->
            IF best[i].id = row.id /\ row.distance_km < best[i].distance_km
            THEN row ELSE best[i]]
    ELSE Append(best, row)

RECURSIVE dedupe(_)
dedupe(all_rows) ==
    IF all_rows = <<>> THEN <<>>
    ELSE Upsert(dedupe(SubSeq(all_rows, 1, Len(all_rows) - 1)), all_rows[Len(all_rows)])

RECURSIVE Concat(_)
Concat(seqs) == IF seqs = <<>> THEN <<>> ELSE Head(seqs) \o Concat(Tail(seqs))

\* sorted() without recursion: the row at position k is the one with k - 1
\* rows before it, where a row comes before another when its key is smaller,
\* or equal and it stood earlier
sorted_by_rank(rows, sort) ==
    LET before(j, i) == \/ SortKey(rows[j], sort) < SortKey(rows[i], sort)
                        \/ (SortKey(rows[j], sort) = SortKey(rows[i], sort) /\ j < i)
        rank(i) == Cardinality({ j \in 1..Len(rows) : before(j, i) }) + 1
    IN [k \in 1..Len(rows) |-> rows[CHOOSE i \in 1..Len(rows) : rank(i) = k]]

\* the dedupe loop without recursion: ids in order of first appearance, each
\* with its first row of minimum distance
dedupe_by_min(all_rows) ==
    LET n == Len(all_rows)
        firsts == SelectSeq([i \in 1..n |-> i],
                            LAMBDA i : \A j \in 1..(i - 1) : all_rows[j].id # all_rows[i].id)
        nearest(id) == CHOOSE i \in 1..n :
                          /\ all_rows[i].id = id
                          /\ \A j \in 1..n : all_rows[j].id = id =>
                                 \/ all_rows[i].distance_km < all_rows[j].distance_km
                                 \/ (all_rows[i].distance_km = all_rows[j].distance_km /\ i <= j)
    IN [k \in 1..Len(firsts) |-> all_rows[nearest(all_rows[firsts[k]].id)]]

(***************************************************************************)
(* Graph routing (graph.py)                                                *)
(***************************************************************************)
should_continue_after_classify_IgnoresError(err, int) ==
    IF int = "list_competitions" THEN "search" ELSE "dates"

should_continue_after_classify_NoSkip(err, int) ==
    IF has_error(err) THEN "error_handler" ELSE "dates"

should_continue_after_classify(err, int) ==
    IF has_error(err) THEN "error_handler"
    ELSE IF int = "list_competitions" THEN "search"
    ELSE "dates"

should_continue_after_dates_IgnoresError(err) == "location"

should_continue_after_dates(err) ==
    IF has_error(err) THEN "error_handler" ELSE "location"

should_continue_after_location(err) ==
    IF has_error(err) THEN "error_handler" ELSE "search"

should_continue_after_search_Loops(err) ==
    IF has_error(err) THEN "error_handler" ELSE "location"

should_continue_after_search(err) ==
    IF has_error(err) THEN "error_handler" ELSE "post"

\* should_end_after_post returns "end", which the graph maps to END
should_end_after_post(err) == "END"

\* graph.add_edge("error_handler", END)
after_error_handler == "END"

(***************************************************************************)
(* The initial AgentState built by agent_query (api.py 86-91)              *)
(***************************************************************************)
NoCalls ==
    [classify |-> 0, dates |-> 0, geocode |-> 0, ids |-> 0, find_near |-> 0,
     list_competitions |-> 0]

\* no classify call made yet
NoClassifyResponse == [net |-> "", intent |-> None, slots |-> EmptySlots]

NoResponse == [status |-> 0, error |-> None, message |-> <<>>, fallback |-> FALSE]

NoDateObj == DateObj("", None, None, Null, Null, 0)

\* a single request is in flight
OneRequest == parked = <<>> /\ running = 1

FreshState ==
    /\ intent = None
    /\ slots = EmptySlots
    /\ date_from = Null
    /\ date_to = Null
    /\ date_status = None
    /\ coords = <<>>
    /\ radius_km = DefaultRadiusKm
    /\ results = <<>>
    /\ error = None
    /\ error_message = <<>>
    /\ processing_steps = <<>>
    /\ calls = NoCalls
    /\ response = NoResponse
    /\ classified = NoClassifyResponse
    /\ geocoded = <<>>
    /\ searched = <<>>

Init ==
    /\ pc = "classify"
    /\ q \in Queries
    /\ \E uc \in UserCoords : user_lat = uc[1] /\ user_lon = uc[2]
    /\ limit \in Limits
    /\ FreshState
    /\ obj = NoDateObj
    /\ dr = NoDateRange
    /\ OneRequest

(***************************************************************************)
(* Nodes (nodes.py)                                                        *)
(***************************************************************************)
\* the node body; R is the set of answers the classify call may give
classify_node(R) ==
    /\ pc = "classify"
    /\ IF QueryTooShort(q)
       THEN /\ error' = "CLASSIFY_ERROR"
            /\ error_message' = <<"Query not understood, please use a clearer expression.">>
            /\ processing_steps' = processing_steps \o
                 << Step("classify_intent", <<>>),
                    ErrorStep("CLASSIFY_ERROR", "Empty or too short query") >>
            /\ UNCHANGED <<intent, slots, radius_km, calls, classified>>
       ELSE \E resp \in R :
              LET dec == classify_intent(resp)
              IN /\ calls' = [calls EXCEPT !.classify = @ + 1]
                 /\ classified' = resp
                 /\ IF dec.raised
                    THEN /\ error' = "CLASSIFY_ERROR"
                         /\ error_message' = <<"Intent classification failed: ", dec.exc>>
                         /\ processing_steps' = processing_steps \o
                              << Step("classify_intent", <<>>),
                                 ErrorStep("CLASSIFY_ERROR", dec.exc) >>
                         /\ UNCHANGED <<intent, slots, radius_km>>
                    ELSE IF dec.intent = "unclear_query"
                    THEN /\ intent' = dec.intent
                         /\ slots' = dec.slots
                         /\ error' = "UNCLEAR_QUERY"
                         /\ error_message' = <<"I didn't understand your request. Please ask about sports events, competitions, or venues in Belgium.">>
                         /\ processing_steps' = processing_steps \o
                              << Step("classify_intent", <<>>),
                                 ErrorStep("UNCLEAR_QUERY", "Random or unclear text") >>
                         /\ UNCHANGED radius_km
                    ELSE /\ intent' = dec.intent
                         /\ slots' = dec.slots
                         /\ radius_km' = IF Truthy(dec.slots.radius_km)
                                         THEN dec.slots.radius_km.v ELSE radius_km
                         /\ processing_steps' = processing_steps \o
                              << Step("classify_intent", <<>>),
                                 Step("intent_classified", <<dec.intent>>) >>
                         /\ UNCHANGED <<error, error_message>>
    /\ pc' = should_continue_after_classify(error', intent')
    /\ UNCHANGED <<suspended, agent, date_from, date_to, date_status, coords, results, response, obj, dr,
                   geocoded, searched>>

n_classify == classify_node(ClassifyResponses)

date_window_NoTimeFallsBack(r) ==
    IF r.status = "OK" THEN <<r.date_from, r.date_to>>
    ELSE <<Iso(Today), Iso(Today + FallbackDays)>>

\* the (date_from, date_to) n_dates stores for each status: the oracle's pair,
\* today only, or today and the ten days after it
date_window(r) ==
    IF r.status = "OK" THEN <<r.date_from, r.date_to>>
    ELSE IF r.status = "NO_TIME" THEN <<Iso(Today), Iso(Today)>>
    ELSE <<Iso(Today), Iso(Today + FallbackDays)>>

n_dates ==
    /\ pc = "dates"
    /\ IF intent = "list_competitions"
       THEN /\ processing_steps' = processing_steps \o
                 << Step("resolve_dates", <<>>), Step("dates_skipped", <<>>) >>
            /\ UNCHANGED <<date_from, date_to, date_status, error, error_message, calls>>
       ELSE \E o \in PipelineDateObjs :
              LET r == resolve_date_range(o)
              IN /\ calls' = [calls EXCEPT !.dates = @ + 1]
                 /\ IF r.raised
                    THEN /\ error' = "DATE_ERROR"
                         /\ error_message' = <<"Date resolution failed: ", r.exc>>
                         /\ processing_steps' = processing_steps \o
                              << Step("resolve_dates", <<>>), ErrorStep("DATE_ERROR", r.exc) >>
                         /\ UNCHANGED <<date_from, date_to, date_status>>
                    ELSE IF r.status = "OK"
                    THEN /\ date_status' = r.status
                         /\ date_from' = date_window(r)[1]
                         /\ date_to' = date_window(r)[2]
                         \* state.time_keyword = ... : no such field, the assignment raises
                         /\ IF HasField("time_keyword")
                            THEN /\ processing_steps' = processing_steps \o
                                      << Step("resolve_dates", <<>>),
                                         Step("dates_resolved", <<r.time_keyword>>) >>
                                 /\ UNCHANGED <<error, error_message>>
                            ELSE /\ error' = "DATE_ERROR"
                                 /\ error_message' = <<"Date resolution failed: ", "no field time_keyword">>
                                 /\ processing_steps' = processing_steps \o
                                      << Step("resolve_dates", <<>>),
                                         ErrorStep("DATE_ERROR", "no field time_keyword") >>
                    ELSE IF r.status = "NO_TIME"
                    THEN /\ date_status' = r.status
                         /\ date_from' = date_window(r)[1]
                         /\ date_to' = date_window(r)[2]
                         /\ processing_steps' = processing_steps \o
                              << Step("resolve_dates", <<>>), Step("dates_default", <<>>) >>
                         /\ UNCHANGED <<error, error_message>>
                    ELSE /\ date_status' = r.status
                         /\ date_from' = date_window(r)[1]
                         /\ date_to' = date_window(r)[2]
                         /\ processing_steps' = processing_steps \o
                              << Step("resolve_dates", <<>>),
                                 Step("dates_fallback_10days", <<>>),
                                 Step("unclear_time_fallback", <<"Showing next 10 days">>) >>
                         /\ UNCHANGED <<error, error_message>>
    /\ pc' = should_continue_after_dates(error')
    /\ UNCHANGED <<suspended, agent, intent, slots, coords, radius_km, results, response, obj, dr, classified, geocoded, searched>>

\* state.user_lat is not None and state.user_lon is not None
FromUser(lat, lon) == lat.k # "null" /\ lon.k # "null"

AskCities_IgnoresUserCoords(cities, cs) == cities # <<>>

\* if cities and not coords: the city slots are geocoded only when the caller
\* gave no coordinate
AskCities(cities, cs) == cities # <<>> /\ cs = <<>>

AskQuery_Never(cs) == FALSE

\* if not coords: the whole query is geocoded only when nothing was found
AskQuery(cs) == cs = <<>>

UsableCities_AllOrNothing(cities, ans) ==
    IF \A i \in 1..Len(cities) : GeoUsable(ans[i])
    THEN [i \in 1..Len(cities) |-> i] ELSE <<>>

\* indices of the cities whose geocode answer is usable, in slot order
UsableCities(cities, ans) ==
    SelectSeq([i \in 1..Len(cities) |-> i], LAMBDA i : GeoUsable(ans[i]))

\* one geocode_text_tool invocation: the text asked and the answer
GeocodeCall(kind, text, out) == [kind |-> kind, text |-> text, out |-> out]

n_location ==
    /\ pc = "location"
    /\ IF intent = "list_competitions"
       THEN /\ processing_steps' = processing_steps \o
                 << Step("resolve_location", <<>>), Step("location_skipped", <<>>) >>
            /\ UNCHANGED <<coords, error, error_message, calls, geocoded>>
       ELSE \E ans \in [1..Len(slots.cities) -> GeoAnswers], fb \in GeoAnswers :
              LET fromUser == FromUser(user_lat, user_lon)
                  userCoords == IF fromUser THEN <<Coord(user_lat.v, user_lon.v)>> ELSE <<>>
                  userSteps == IF fromUser THEN <<Step("location_from_user_coords", <<>>)>> ELSE <<>>
                  askCities == AskCities(slots.cities, userCoords)
                  usable == IF askCities THEN UsableCities(slots.cities, ans) ELSE <<>>
                  cityCoords == [j \in 1..Len(usable) |->
                                   Coord(ans[usable[j]].lat.v, ans[usable[j]].lon.v)]
                  citySteps == [j \in 1..Len(usable) |->
                                  Step("location_from_city", <<slots.cities[usable[j]]>>)]
                  cityCalls == IF askCities
                               THEN [i \in 1..Len(slots.cities) |->
                                       GeocodeCall("city", <<slots.cities[i]>>, ans[i])]
                               ELSE <<>>
                  askQuery == AskQuery(userCoords \o cityCoords)
                  queryCoords == IF askQuery /\ GeoUsable(fb)
                                 THEN <<Coord(fb.lat.v, fb.lon.v)>> ELSE <<>>
                  querySteps == IF askQuery /\ GeoUsable(fb)
                                THEN <<Step("location_from_query", <<>>)>> ELSE <<>>
                  queryCalls == IF askQuery THEN <<GeocodeCall("query", q, fb)>> ELSE <<>>
                  found == userCoords \o cityCoords \o queryCoords
                  steps == <<Step("resolve_location", <<>>)>> \o userSteps \o citySteps \o querySteps
              IN /\ calls' = [calls EXCEPT !.geocode = @ + Len(cityCalls) + Len(queryCalls)]
                 /\ geocoded' = geocoded \o cityCalls \o queryCalls
                 /\ coords' = found
                 /\ IF found = <<>>
                    THEN /\ error' = "NO_LOCATION"
                         /\ error_message' = <<"Location not specified. Please add a city name (e.g., 'Brussels sports activities') or share your coordinates.">>
                         /\ processing_steps' = processing_steps \o steps \o
                              << ErrorStep("NO_LOCATION", "Location not specified") >>
                    ELSE /\ processing_steps' = processing_steps \o steps \o
                              << Step("location_resolved", <<ToString(Len(found))>>) >>
                         /\ UNCHANGED <<error, error_message>>
    /\ pc' = should_continue_after_location(error')
    /\ UNCHANGED <<suspended, agent, intent, slots, date_from, date_to, date_status, radius_km,
                   results, response, obj, dr, classified, searched>>

\* AgentState.get_coords_for_search: Brussels (50.8503, 4.3517) when empty
get_coords_for_search(cs) == IF cs # <<>> THEN cs ELSE <<Coord(509, 44)>>

\* whether the i-th proximity query raises: the store is down for it, or
\* the statement is malformed
search_raises(i, down, df, dt, competitions, venues) ==
    \/ i \in down
    \/ find_events_near_raises(df, dt, ids_by_names(CompetitionTable, competitions),
                               ids_by_names(VenueTable, venues))

\* for coord in <the sliced coordinates>: the rows of each query, none when
\* it raises
search_rows(search_coords, down, radius, df, dt, competitions, venues) ==
    [i \in 1..Len(search_coords) |->
        IF search_raises(i, down, df, dt, competitions, venues) THEN <<>>
        ELSE find_events_near_db(search_coords[i].lat, search_coords[i].lon,
                                 radius, df, dt, SearchLimit)]

\* the steps n_search adds before "search_completed"
search_steps(rows, down, df, dt, competitions, venues) ==
    <<Step("search_events", <<>>)>>
    \o (IF competitions # <<>>
        THEN <<Step("competition_ids_resolved",
                    <<ToString(Len(ids_by_names(CompetitionTable, competitions)))>>)>>
        ELSE <<>>)
    \o (IF venues # <<>>
        THEN <<Step("venue_ids_resolved",
                    <<ToString(Len(ids_by_names(VenueTable, venues)))>>)>>
        ELSE <<>>)
    \o [i \in 1..Len(rows) |->
          IF search_raises(i, down, df, dt, competitions, venues)
          THEN Step("search_coord_error", <<>>)
          ELSE Step("search_coord", <<ToString(Len(rows[i]))>>)]

search_slice_NoCap(search_coords) == search_coords

\* search_coords[:5]
search_slice(search_coords) == Take(search_coords, MaxSearchCoords)

\* one db_find_near_tool invocation: where, how far, and what came back
SearchCall(coord, radius, raised, rows) ==
    [lat |-> coord.lat, lon |-> coord.lon, radius_km |-> radius, raised |-> raised,
     rows |-> rows]

n_search ==
    /\ pc = "search"
    /\ IF intent = "list_competitions"
       THEN \E outcome \in {"ok"} \cup ExcTexts :
              /\ calls' = [calls EXCEPT !.list_competitions = @ + 1]
              /\ UNCHANGED searched
              /\ IF outcome = "ok"
                 THEN /\ results' = list_competitions_db
                      /\ processing_steps' = processing_steps \o
                           << Step("search_events", <<>>),
                              Step("search_competitions_completed", <<>>) >>
                      /\ UNCHANGED <<error, error_message>>
                 ELSE /\ error' = "SEARCH_ERROR"
                      /\ error_message' = <<"Search failed: ", outcome>>
                      /\ processing_steps' = processing_steps \o
                           << Step("search_events", <<>>), ErrorStep("SEARCH_ERROR", outcome) >>
                      /\ UNCHANGED results
       ELSE IF has_error(error)
       THEN /\ processing_steps' = processing_steps \o
                 << Step("search_events", <<>>), Step("search_skipped", <<>>) >>
            /\ UNCHANGED <<results, error, error_message, calls, searched>>
       ELSE LET lookups == (IF slots.competitions # <<>> THEN 1 ELSE 0)
                            + (IF slots.venues # <<>> THEN 1 ELSE 0)
                search_coords == search_slice(get_coords_for_search(coords))
                n == Len(search_coords)
            IN \E idOutcome \in (IF lookups > 0 THEN {"ok"} \cup ExcTexts ELSE {"ok"}),
                  down \in SUBSET (1..n) :
                 IF idOutcome # "ok"
                 THEN \* the first name lookup raises
                      /\ calls' = [calls EXCEPT !.ids = @ + 1]
                      /\ error' = "SEARCH_ERROR"
                      /\ error_message' = <<"Search failed: ", idOutcome>>
                      /\ processing_steps' = processing_steps \o
                           << Step("search_events", <<>>), ErrorStep("SEARCH_ERROR", idOutcome) >>
                      /\ UNCHANGED <<results, searched>>
                 ELSE LET rows == search_rows(search_coords, down, radius_km, date_from, date_to,
                                              slots.competitions, slots.venues)
                          best == dedupe(Concat(rows))
                      IN /\ calls' = [calls EXCEPT !.ids = @ + lookups, !.find_near = @ + n]
                         /\ searched' = searched \o
                              [i \in 1..n |->
                                 SearchCall(search_coords[i], radius_km,
                                            search_raises(i, down, date_from, date_to,
                                                          slots.competitions, slots.venues),
                                            rows[i])]
                         /\ results' = best
                         /\ processing_steps' = processing_steps
                              \o search_steps(rows, down, date_from, date_to,
                                              slots.competitions, slots.venues)
                              \o <<Step("search_completed", <<ToString(Len(best))>>)>>
                         /\ UNCHANGED <<error, error_message>>
    /\ pc' = should_continue_after_search(error')
    /\ UNCHANGED <<suspended, agent, intent, slots, date_from, date_to, date_status, coords,
                   radius_km, response, obj, dr, classified, geocoded>>

n_post ==
    /\ pc = "post"
    /\ IF intent = "list_competitions"
       THEN /\ processing_steps' = processing_steps \o
                 << Step("post_process", <<>>), Step("post_skipped", <<>>) >>
            /\ UNCHANGED <<results, error, error_message>>
       ELSE \* the sort or the slice may raise (MemoryError is an Exception)
            \E outcome \in {"ok", "MemoryError"} :
              IF outcome = "ok"
              THEN LET sort == IF slots.sort # None THEN slots.sort ELSE "distance"
                       final == Take(sorted(results, sort), limit)
                   IN /\ results' = final
                      /\ processing_steps' = processing_steps \o
                           << Step("post_process", <<>>),
                              Step("post_completed", <<ToString(Len(final))>>) >>
                      /\ UNCHANGED <<error, error_message>>
              ELSE /\ error' = "POST_ERROR"
                   /\ error_message' = <<"Post-processing failed: ", outcome>>
                   /\ processing_steps' = processing_steps \o
                        << Step("post_process", <<>>), ErrorStep("POST_ERROR", outcome) >>
                   /\ UNCHANGED results
    /\ pc' = should_end_after_post(error')
    /\ UNCHANGED <<suspended, agent, intent, slots, date_from, date_to, date_status, coords,
                   radius_km, calls, response, obj, dr, classified, geocoded, searched>>

\* the message n_error_handler assigns to a code
HandlerMessage(code) ==
    CASE code = "UNCLEAR_TIME" -> <<"Date expression is unclear, please specify a clearer date.">>
      [] code = "NO_LOCATION" -> <<"Location not specified, please add a city name or share your coordinates.">>
      [] code = "CLASSIFY_ERROR" -> <<"Query not understood, please use a clearer expression.">>
      [] code = "UNCLEAR_QUERY" -> <<"I didn't understand your request. Please ask about sports events, competitions, or venues in Belgium.">>
      [] code = "SEARCH_ERROR" -> <<"Error occurred during search.">>
      [] OTHER -> <<"Unexpected error: ", code>>

n_error_handler ==
    /\ pc = "error_handler"
    /\ error_message' = HandlerMessage(error)
    /\ processing_steps' = processing_steps \o
         << Step("handle_error", <<>>), Step("error_handled", <<error>>) >>
    /\ pc' = after_error_handler
    /\ UNCHANGED <<suspended, agent, intent, slots, date_from, date_to, date_status, coords,
                   radius_km, results, error, calls, response, obj, dr, classified, geocoded, searched>>

(***************************************************************************)
(* HTTP handler (api.py agent_query 97-173)                                *)
(***************************************************************************)
\* "unclear_time_fallback" in step: the word occurs in the step's string
StepMentions(step, word) ==
    step.tag = word \/ \E i \in 1..Len(step.arg) : step.arg[i] = word

agent_query ==
    /\ pc = "END"
    /\ pc' = "DONE"
    /\ response' =
         IF has_error(error)
         THEN IF error = "UNCLEAR_TIME"
              THEN [status |-> 422, error |-> error, fallback |-> FALSE,
                    message |-> <<"Tarih ifadesi belirsiz, lutfen daha net bir tarih belirtin.">>]
              ELSE IF error = "NO_LOCATION"
              THEN [status |-> 422, error |-> error, fallback |-> FALSE,
                    message |-> <<"Konum belirtilmedi, lutfen sehir adi ekleyin veya koordinatlarinizi paylasin.">>]
              ELSE [status |-> 500, error |-> error, fallback |-> FALSE,
                    message |-> IF error_message # <<>> THEN error_message
                                ELSE <<"Agent query hatasi: ", error>>]
         ELSE LET unclear_time_fallback ==
                      \E i \in 1..Len(processing_steps) :
                          StepMentions(processing_steps[i], "unclear_time_fallback")
              IN \* the response dict reads final_state.time_keyword
                 IF HasField("time_keyword")
                 THEN [status |-> 200, error |-> None, fallback |-> unclear_time_fallback,
                       message |-> IF unclear_time_fallback
                                   THEN <<"Tarih ifadesi belirsiz oldugu icin onumuzdeki 10 gunluk etkinlikler gosteriliyor.">>
                                   ELSE <<>>]
                 ELSE [status |-> 500, error |-> None, fallback |-> FALSE,
                       message |-> <<"Agent query hatasi: ", "no attribute time_keyword">>]
    /\ UNCHANGED <<suspended, agent, intent, slots, date_from, date_to, date_status, coords, radius_km,
                   results, error, error_message, processing_steps, calls, obj, dr, classified, geocoded, searched>>

Next ==
    \/ n_classify
    \/ n_dates
    \/ n_location
    \/ n_search
    \/ n_post
    \/ n_error_handler
    \/ agent_query

Spec == Init /\ [][Next]_vars

(***************************************************************************)
(* The date sanity check on every oracle answer                            *)
(***************************************************************************)
InitDates ==
    /\ pc = "oracle"
    /\ q = <<"a", "b">>
    /\ user_lat = Null
    /\ user_lon = Null
    /\ limit = DefaultLimit
    /\ FreshState
    /\ obj \in OracleDateObjs
    /\ dr = NoDateRange
    /\ OneRequest

normalize_dates_tool ==
    /\ pc = "oracle"
    /\ dr' = resolve_date_range(obj)
    /\ pc' = "returned"
    /\ UNCHANGED <<suspended, agent, intent, slots, date_from, date_to, date_status, coords, radius_km,
                   results, error, error_message, processing_steps, calls, response, obj,
                   classified, geocoded, searched>>

NextDates == normalize_dates_tool

SpecDates == InitDates /\ [][NextDates]_vars

(***************************************************************************)
(* The Search stage on up to MaxCoords resolved city coordinates           *)
(***************************************************************************)
MaxCoords == 6

SearchPlaces == { Coord(Brussels.lat, Brussels.lon), Coord(Paris.lat, Paris.lon) }

\* the state n_location leaves when every one of the slot cities geocoded OK:
\* the classifier answered events_in_cities, the date oracle UNCLEAR
InitSearch ==
    /\ pc = "search"
    /\ q = <<"a", "b">>
    /\ user_lat = Null
    /\ user_lon = Null
    /\ limit \in Limits
    /\ intent = "events_in_cities"
    /\ coords \in SeqsUpTo(SearchPlaces, MaxCoords) \ { <<>> }
    /\ \E f \in OracleFilters, r \in OracleRadii, s \in OracleSorts :
         /\ slots = [cities |-> [i \in 1..Len(coords) |-> "Brussels"],
                     competitions |-> f[1], venues |-> f[2], radius_km |-> r, sort |-> s]
         /\ radius_km = IF Truthy(r) THEN r.v ELSE DefaultRadiusKm
    /\ date_status = "UNCLEAR"
    /\ date_from = Iso(Today)
    /\ date_to = Iso(Today + FallbackDays)
    /\ results = <<>>
    /\ error = None
    /\ error_message = <<>>
    /\ geocoded = [i \in 1..Len(coords) |->
                     GeocodeCall("city", <<"Brussels">>,
                                 GeocodeOut("OK", Num(coords[i].lat), Num(coords[i].lon), 100))]
    /\ processing_steps =
         << Step("classify_intent", <<>>), Step("intent_classified", <<"events_in_cities">>),
            Step("resolve_dates", <<>>), Step("dates_fallback_10days", <<>>),
            Step("unclear_time_fallback", <<"Showing next 10 days">>),
            Step("resolve_location", <<>>) >>
         \o [i \in 1..Len(coords) |-> Step("location_from_city", <<"Brussels">>)]
         \o << Step("location_resolved", <<ToString(Len(coords))>>) >>
    /\ calls = [NoCalls EXCEPT !.classify = 1, !.dates = 1, !.geocode = Len(coords)]
    /\ classified = [net |-> "ok", intent |-> intent, slots |-> slots]
    /\ response = NoResponse
    /\ searched = <<>>
    /\ obj = NoDateObj
    /\ dr = NoDateRange
    /\ OneRequest

NextSearch ==
    \/ n_search
    \/ n_post
    \/ n_error_handler
    \/ agent_query

SpecSearch == InitSearch /\ [][NextSearch]_vars

(***************************************************************************)
(* The Post stage on every short list of deduplicated rows                 *)
(***************************************************************************)
MaxRows == 3

\* rows with two start times and two distances, so that keys tie
PostRows ==
    { [id |-> i, datetime_local |-> t, distance_km |-> d, competition_id |-> 1, venue_id |-> 1] :
        i \in 1..MaxRows, t \in {10, 20}, d \in {5, 18} }

\* lists of at most MaxRows rows with pairwise different ids, in any order
PostInputs ==
    { s \in SeqsUpTo(PostRows, MaxRows) :
        \A i, j \in 1..Len(s) : s[i].id = s[j].id => i = j }

\* the state n_search leaves: each slot city geocoded to a coordinate of its
\* own and each proximity query returned one of the rows (none when there
\* is no row at all)
InitPost ==
    /\ pc = "post"
    /\ q = <<"a", "b">>
    /\ user_lat = Null
    /\ user_lon = Null
    /\ limit \in Limits \cup {DefaultLimit}
    /\ intent = "events_in_cities"
    /\ results \in PostInputs
    /\ coords = [i \in 1..(IF results = <<>> THEN 1 ELSE Len(results)) |->
                   Coord(Brussels.lat + i, Brussels.lon)]
    /\ \E s \in OracleSorts \cup {"distance"} :
         slots = [cities |-> [i \in 1..Len(coords) |-> "Brussels"],
                  competitions |-> <<>>, venues |-> <<>>, radius_km |-> Null, sort |-> s]
    /\ radius_km = DefaultRadiusKm
    /\ date_status = "UNCLEAR"
    /\ date_from = Iso(Today)
    /\ date_to = Iso(Today + FallbackDays)
    /\ error = None
    /\ error_message = <<>>
    /\ geocoded = [i \in 1..Len(coords) |->
                     GeocodeCall("city", <<"Brussels">>,
                                 GeocodeOut("OK", Num(coords[i].lat), Num(coords[i].lon), 100))]
    /\ searched = [i \in 1..Len(coords) |->
                     SearchCall(coords[i], radius_km, FALSE,
                                IF results = <<>> THEN <<>> ELSE <<results[i]>>)]
    /\ processing_steps =
         << Step("classify_intent", <<>>), Step("intent_classified", <<"events_in_cities">>),
            Step("resolve_dates", <<>>), Step("dates_fallback_10days", <<>>),
            Step("unclear_time_fallback", <<"Showing next 10 days">>),
            Step("resolve_location", <<>>) >>
         \o [i \in 1..Len(coords) |-> Step("location_from_city", <<"Brussels">>)]
         \o << Step("location_resolved", <<ToString(Len(coords))>>),
               Step("search_events", <<>>) >>
         \o [i \in 1..Len(coords) |-> Step("search_coord", <<ToString(Len(searched[i].rows))>>)]
         \o << Step("search_completed", <<ToString(Len(results))>>) >>
    /\ calls = [NoCalls EXCEPT !.classify = 1, !.dates = 1, !.geocode = Len(coords),
                               !.find_near = Len(coords)]
    /\ classified = [net |-> "ok", intent |-> intent, slots |-> slots]
    /\ response = NoResponse
    /\ obj = NoDateObj
    /\ dr = NoDateRange
    /\ OneRequest

NextPost ==
    \/ n_post
    \/ agent_query

SpecPost == InitPost /\ [][NextPost]_vars

(***************************************************************************)
(* Reading the processing-step trace                                       *)
(***************************************************************************)
\* the first step each node adds
StageTags ==
    { "classify_intent", "resolve_dates", "resolve_location", "search_events",
      "post_process", "handle_error" }

StageName(tag) ==
    CASE tag = "classify_intent" -> "classify"
      [] tag = "resolve_dates" -> "dates"
      [] tag = "resolve_location" -> "location"
      [] tag = "search_events" -> "search"
      [] tag = "post_process" -> "post"
      [] tag = "handle_error" -> "error_handler"

\* the nodes executed so far, in order
Stages ==
    LET s == SelectSeq(processing_steps, LAMBDA st : st.tag \in StageTags)
    IN [i \in 1..Len(s) |-> StageName(s[i].tag)]

Rank(stage) ==
    CASE stage = "classify" -> 1
      [] stage = "dates" -> 2
      [] stage = "location" -> 3
      [] stage = "search" -> 4
      [] stage = "post" -> 5
      [] stage = "error_handler" -> 6

LastStage == IF Stages = <<>> THEN None ELSE Stages[Len(Stages)]

Terminal == pc \in {"END", "DONE"}

\* graph.add_node
Nodes == { "classify", "dates", "location", "search", "post", "error_handler" }

Ran(stage) == \E i \in 1..Len(Stages) : Stages[i] = stage

NoOracleOrStoreCall == calls = NoCalls

OnlyClassifyCalled ==
    calls = [NoCalls EXCEPT !.classify = calls.classify]

(***************************************************************************)
(* Claims                                                                  *)
(***************************************************************************)
\* C1: a query with fewer than 2 non-whitespace characters ends in
\* CLASSIFY_ERROR right after Classify, and no oracle or store call is made
\* at any point of the run.
C1_ShortQueryRejected ==
    NonWhitespace(q) < 2 =>
        /\ NoOracleOrStoreCall
        /\ pc # "classify" =>
             /\ error = "CLASSIFY_ERROR"
             /\ intent = None
             /\ Stages \in { <<"classify">>, <<"classify", "error_handler">> }
             /\ pc \in {"error_handler", "END", "DONE"}

C1_Witness ==
    /\ q = <<" ", "a">>
    /\ pc = "DONE"
    /\ error = "CLASSIFY_ERROR"
    /\ response.status = 500

\* C2: when the oracle classifies the query as unclear_query the run goes from
\* Classify straight to the error handler with UNCLEAR_QUERY; Dates, Location,
\* Search and Post never run and no date, geocode or store call is made.
C2_UnclearQueryShortCircuit ==
    intent = "unclear_query" =>
        /\ error = "UNCLEAR_QUERY"
        /\ Stages \in { <<"classify">>, <<"classify", "error_handler">> }
        /\ Stages = <<"classify">> => pc = "error_handler"
        /\ OnlyClassifyCalled

C2_Witness ==
    /\ intent = "unclear_query"
    /\ pc = "DONE"
    /\ Stages = <<"classify", "error_handler">>
    /\ calls.classify = 1

\* C3: a list_competitions run never invokes Dates or Location: the trace has
\* no step of either, no date or geocode call is made, and Search is the
\* stage that follows Classify.
DatesOrLocationTags ==
    { "resolve_dates", "dates_skipped", "dates_resolved", "dates_default",
      "dates_fallback_10days", "unclear_time_fallback", "resolve_location",
      "location_skipped", "location_from_user_coords", "location_from_city",
      "location_from_query", "location_resolved" }

C3_ListCompetitionsSkipsDatesAndLocation ==
    intent = "list_competitions" =>
        /\ \A i \in 1..Len(processing_steps) :
              processing_steps[i].tag \notin DatesOrLocationTags
        /\ calls.dates = 0 /\ calls.geocode = 0
        /\ Stages = <<"classify">> => pc = "search"
        /\ Len(Stages) >= 2 => Stages[2] = "search"

C3_Witness ==
    /\ intent = "list_competitions"
    /\ pc = "DONE"
    /\ Stages = <<"classify", "search", "post">>
    /\ results = list_competitions_db

\* C4: the stages executed are, in order, a subsequence of Classify, Dates,
\* Location, Search, Post, each at most once, optionally followed by the
\* error handler; no stage runs after the graph ended; and every run ends
\* after at most six stage executions (a running graph can always take a
\* step, each step executes one more stage, and there are at most six).
C4_StagesInOrder ==
    /\ \A i, j \in 1..Len(Stages) : i < j => Rank(Stages[i]) < Rank(Stages[j])
    /\ Len(Stages) <= 6
    /\ Terminal => LastStage \in {"post", "error_handler"}
    /\ ~Terminal => pc \in Nodes

ErrorBeforePost == has_error(error) /\ error # "POST_ERROR"

C5_ErrorStateShape ==
    ErrorBeforePost =>
        /\ pc \in {"error_handler", "END", "DONE"}
        /\ ~Ran("post")
        /\ pc = "error_handler" <=> LastStage # "error_handler"
        /\ \A i \in 1..Len(Stages) : Stages[i] = "error_handler" => i = Len(Stages)

C5_ErrorShortCircuit ==
    /\ []C5_ErrorStateShape
    /\ [][ErrorBeforePost =>
            /\ calls' = calls
            /\ error' = error
            /\ Stages' \in { Stages, Append(Stages, "error_handler") }]_vars

C5_Witness ==
    /\ error = "NO_LOCATION"
    /\ pc = "DONE"
    /\ Stages = <<"classify", "dates", "location", "error_handler">>

\* C6 (as claimed): every run that ends with an error code has the error
\* handler as its last stage and carries the handler's fixed message for
\* that code.
C6_EveryErrorEndsInHandler ==
    (Terminal /\ has_error(error)) =>
        /\ LastStage = "error_handler"
        /\ error_message = HandlerMessage(error)

\* C7 (as claimed): an UNCLEAR date answer gives the window today .. today+10
\* without an error, the run goes on to Location, and a run that then ends
\* without error is answered 200 with the fallback annotation.
C7_UnclearDatesServedWithFallback ==
    date_status = "UNCLEAR" =>
        /\ date_from = Iso(Today) /\ date_to = Iso(Today + FallbackDays)
        /\ LastStage = "dates" => (error = None /\ pc = "location")
        /\ (pc = "DONE" /\ ~has_error(error)) =>
              (response.status = 200 /\ response.fallback)

\* C8 (as claimed): an OK date answer is adopted as it is, with its time
\* keyword, without an error, and the run goes on to Location.
C8_OkDatesAdopted ==
    (date_status = "OK" /\ LastStage = "dates") =>
        /\ error = None
        /\ pc = "location"
        /\ processing_steps[Len(processing_steps)].tag = "dates_resolved"

\* C9: a NO_TIME date answer gives date_from = date_to = today without an
\* error, the run goes on to Location, and the events found are today's.
EventDay(id) == (CHOOSE e \in Range(EventTable) : e.id = id).day

C9_NoTimeDefaultsToToday ==
    date_status = "NO_TIME" =>
        /\ date_from = Iso(Today) /\ date_to = Iso(Today)
        /\ LastStage = "dates" => (error = None /\ pc = "location")
        /\ \A i \in 1..Len(results) : EventDay(results[i].id) = Today

C9_Witness ==
    /\ date_status = "NO_TIME"
    /\ pc = "DONE"
    /\ LastStage = "post"
    /\ error = None
    /\ Len(results) = 2

\* C10 (as claimed): a range returned with status OK has date_from <= date_to
\* and both dates within 500 days of today, and an oracle answer that claims
\* OK without meeting this is returned UNCLEAR with both dates null.
SaneRange(f, t) ==
    /\ Parses(f) /\ Parses(t)
    /\ f.v <= t.v
    /\ Abs(f.v - Today) <= MaxDayDeviation
    /\ Abs(t.v - Today) <= MaxDayDeviation

C10_OkRangesAreSane ==
    (pc = "returned" /\ ~dr.raised) =>
        /\ dr.status = "OK" => SaneRange(dr.date_from, dr.date_to)
        /\ (obj.status = "OK" /\ ~SaneRange(obj.date_from, obj.date_to)) =>
              (dr.status = "UNCLEAR" /\ dr.date_from = Null /\ dr.date_to = Null)

(***************************************************************************)
(* Location stage                                                          *)
(***************************************************************************)
CallerCoordinate == user_lat.k = "num" /\ user_lon.k = "num"

CityCalls == SelectSeq(geocoded, LAMBDA c : c.kind = "city")

QueryCalls == SelectSeq(geocoded, LAMBDA c : c.kind = "query")

NoLocationError == error \notin {"NO_LOCATION", "LOCATION_ERROR"}

\* C11: when the caller supplies both latitude and longitude, the Location
\* stage resolves to exactly that one coordinate, makes no geocoding call
\* whatever city names the slots hold, and ends without error (the run goes
\* on to Search).
C11_CallerCoordinateTrusted ==
    (Ran("location") /\ CallerCoordinate) =>
        /\ coords = <<Coord(user_lat.v, user_lon.v)>>
        /\ geocoded = <<>>
        /\ calls.geocode = 0
        /\ NoLocationError
        /\ LastStage = "location" => (error = None /\ pc = "search")

C11_Witness ==
    /\ CallerCoordinate
    /\ Len(slots.cities) = 2
    /\ LastStage = "location"
    /\ coords = <<Coord(509, 44)>>
    /\ pc = "search"

\* coordinates of the city calls that came back OK, in call order
RECURSIVE OkCoords(_)
OkCoords(cs) ==
    IF cs = <<>> THEN <<>>
    ELSE (IF Head(cs).out.status = "OK"
          THEN <<Coord(Head(cs).out.lat.v, Head(cs).out.lon.v)>> ELSE <<>>)
         \o OkCoords(Tail(cs))

QueriedInOrder ==
    /\ Len(searched) <= Len(coords)
    /\ \A i \in 1..Len(searched) :
          searched[i].lat = coords[i].lat /\ searched[i].lon = coords[i].lon
    /\ calls.find_near = Len(searched)

\* C14 (as claimed): in the Search stage for an intent other than
\* list_competitions the store receives min(n, 5) proximity queries, one for
\* each of the first five of the n resolved coordinates in order and none for
\* the later ones; with one coordinate it is queried exactly once.
C14_QueriesAreMinOfNAndFive ==
    (Ran("search") /\ intent # "list_competitions") =>
        /\ Len(searched) = Min(Len(coords), 5)
        /\ QueriedInOrder
        /\ Len(coords) = 1 => Len(searched) = 1

\* C14 (amended): the same, unless a competition or venue name lookup raised
\* before the queries: then the stage sets SEARCH_ERROR and no proximity
\* query is issued at all.
C14_QueriesCappedAtFive ==
    (Ran("search") /\ intent # "list_competitions") =>
        IF error = "SEARCH_ERROR"
        THEN searched = <<>> /\ calls.find_near = 0 /\ calls.ids = 1
        ELSE /\ Len(searched) = Min(Len(coords), 5)
             /\ QueriedInOrder
             /\ Len(coords) = 1 => Len(searched) = 1

C14_Witness ==
    /\ Ran("search")
    /\ Len(coords) = 6
    /\ Len(searched) = 5
    /\ error = None
    /\ pc = "DONE"

\* all_rows: the rows of the proximity queries, in accumulation order
AllRows == Concat([i \in 1..Len(searched) |-> searched[i].rows])

\* C15: the aggregated result holds each event id at most once, holds every
\* id that was accumulated, and the occurrence kept for an id is an
\* accumulated row whose distance is the minimum among the accumulated rows
\* with that id.
C15_DedupeKeepsNearest ==
    (LastStage = "search" /\ intent # "list_competitions" /\ error = None) =>
        /\ \A i, j \in 1..Len(results) : results[i].id = results[j].id => i = j
        /\ \A k \in 1..Len(AllRows) : \E i \in 1..Len(results) : results[i].id = AllRows[k].id
        /\ \A i \in 1..Len(results) :
              /\ \E k \in 1..Len(AllRows) : AllRows[k] = results[i]
              /\ \A k \in 1..Len(AllRows) :
                    AllRows[k].id = results[i].id =>
                        results[i].distance_km <= AllRows[k].distance_km

\* an event came back first from a far coordinate and later from a nearer one
C15_Witness ==
    /\ LastStage = "search"
    /\ error = None
    /\ \E k1, k2 \in 1..Len(AllRows) :
          /\ k1 < k2
          /\ AllRows[k1].id = AllRows[k2].id
          /\ AllRows[k1].distance_km > AllRows[k2].distance_km
          /\ \E i \in 1..Len(results) : results[i] = AllRows[k2]

(***************************************************************************)
(* Post stage                                                              *)
(***************************************************************************)
\* Post finished its sort and slice
PostDone == LastStage = "post" /\ intent # "list_competitions" /\ error = None

\* the sort key the slot's sort mode selects
KeyOf(row) == IF slots.sort = "time" THEN row.datetime_local ELSE row.distance_km

\* position of a row in the deduplicated input (ids differ, so rows differ)
InputPos(row) == CHOOSE k \in 1..Len(AllRows) : AllRows[k] = row

\* row a comes before row b in the stably sorted input
Before(a, b) ==
    \/ KeyOf(a) < KeyOf(b)
    \/ KeyOf(a) = KeyOf(b) /\ InputPos(a) < InputPos(b)

\* C16: after Post the results are in ascending order of distance when the
\* sort mode is distance or absent, and of start time when it is time; rows
\* with equal key keep the relative order of the deduplicated input.
C16_SortedByModeAndStable ==
    PostDone =>
        /\ \A i \in 1..Len(results) : \E k \in 1..Len(AllRows) : AllRows[k] = results[i]
        /\ \A i, j \in 1..Len(results) :
              i < j =>
                 /\ (slots.sort = "time" =>
                        results[i].datetime_local <= results[j].datetime_local)
                 /\ (slots.sort \in {None, "distance"} =>
                        results[i].distance_km <= results[j].distance_km)
                 /\ Before(results[i], results[j])

\* sorted by time against the distances, with a tie on time kept in input order
C16_Witness ==
    /\ PostDone
    /\ slots.sort = "time"
    /\ Len(AllRows) = 3
    /\ Len(results) = 3
    /\ results[1].distance_km > results[2].distance_km
    /\ results[1].datetime_local = results[2].datetime_local
    /\ results[2].datetime_local < results[3].datetime_local
    /\ InputPos(results[3]) = 1

\* C17: after Post there are at most `limit` results, and they are exactly
\* the first `limit` rows of the sorted deduplicated list: every row left out
\* comes after every row kept.
C17_TruncatedToLimitPrefix ==
    PostDone =>
        /\ Len(results) <= limit
        /\ Len(results) = Min(limit, Len(AllRows))
        /\ \A i, j \in 1..Len(results) : i < j => Before(results[i], results[j])
        /\ \A k \in 1..Len(AllRows) :
              \/ \E i \in 1..Len(results) : results[i] = AllRows[k]
              \/ \A i \in 1..Len(results) : Before(results[i], AllRows[k])

C17_Witness ==
    /\ PostDone
    /\ limit = 2
    /\ Len(AllRows) = 3
    /\ Len(results) = 2
    /\ InputPos(results[1]) = 3
    /\ pc = "DONE"

(***************************************************************************)
(* Slot resolvers and oracle contracts                                     *)
(***************************************************************************)
\* C18 (as claimed): the radius passed to the store lies in [1, 100] km: an
\* oracle radius above 100 is clamped to 100, and a radius that is 0,
\* negative or absent yields the default radius.
C18_RadiusClampedToRange ==
    \A i \in 1..Len(searched) :
        /\ searched[i].radius_km >= 1
        /\ searched[i].radius_km <= 100
        /\ (classified.slots.radius_km.k = "num" /\ classified.slots.radius_km.v > 100) =>
              searched[i].radius_km = 100
        /\ (classified.slots.radius_km.k = "null" \/ classified.slots.radius_km.v <= 0) =>
              searched[i].radius_km = DefaultRadiusKm

\* C19 (as claimed): a geocode answer with confidence below 40 never
\* contributes a coordinate, even with status OK and a latitude and longitude;
\* when every answer of a run is below 40 the run has no location.
C19_LowConfidenceNeverContributes ==
    (Ran("location") /\ ~CallerCoordinate /\ intent # "list_competitions") =>
        /\ \A i \in 1..Len(geocoded) :
              (geocoded[i].out.confidence < 40 /\ geocoded[i].out.lat.k = "num"
                                               /\ geocoded[i].out.lon.k = "num") =>
                 \A j \in 1..Len(coords) :
                    coords[j] # Coord(geocoded[i].out.lat.v, geocoded[i].out.lon.v)
        /\ (\A i \in 1..Len(geocoded) : geocoded[i].out.confidence < 40) =>
              (coords = <<>> /\ error = "NO_LOCATION")

\* the classify call was made and failed: the HTTP call or the JSON parse
\* raised, or the answer does not fit the schema
ClassifyFailed ==
    /\ calls.classify = 1
    /\ classified.net # "ok" \/ classified.intent \notin Intents

\* C20: when the classify call fails the run ends with CLASSIFY_ERROR, the
\* intent stays unset, and no Dates, Location, Search or Post stage runs (no
\* other oracle or store call is made).
C20_ClassifyFailsClosed ==
    /\ intent \in Intents \cup {None}
    /\ ClassifyFailed =>
        /\ error = "CLASSIFY_ERROR"
        /\ intent = None
        /\ slots = EmptySlots
        /\ Stages \in { <<"classify">>, <<"classify", "error_handler">> }
        /\ pc \in {"error_handler", "END", "DONE"}
        /\ calls = [NoCalls EXCEPT !.classify = 1]
        /\ geocoded = <<>>
        /\ searched = <<>>
        /\ pc = "DONE" => response.status = 500

C20_Witness ==
    /\ classified.net = "ok"
    /\ classified.intent = "weather"
    /\ pc = "DONE"
    /\ error = "CLASSIFY_ERROR"
    /\ Stages = <<"classify", "error_handler">>

(***************************************************************************)
(* The Classify stage on every intent of the enum                          *)
(***************************************************************************)
\* every value of the Intent enum, and one value outside it
AnyIntentAnswers == Intents \cup { "weather" }

AnyClassifyResponses ==
    { [net |-> e, intent |-> None, slots |-> EmptySlots] : e \in ExcTexts }
    \cup { [net |-> "ok", intent |-> i, slots |-> s] : i \in AnyIntentAnswers, s \in OracleSlots }

n_classify_any_intent == classify_node(AnyClassifyResponses)

NextClassify ==
    \/ n_classify_any_intent
    \/ n_error_handler
    \/ agent_query

\* the run up to the edge leaving classify, and the error path to its end
SpecClassify == Init /\ [][NextClassify]_vars

SomeQueryRaised == \E i \in 1..Len(searched) : searched[i].raised

\* C22: when a store proximity query raises during the Search stage the run
\* ends with SEARCH_ERROR and the generic search-failed error, never with a
\* successful (empty or partial) result list.
C22_StoreFailureIsSearchError ==
    SomeQueryRaised =>
        /\ error = "SEARCH_ERROR"
        /\ pc \in {"error_handler", "END", "DONE"}
        /\ pc = "DONE" =>
             (response.status = 500 /\ response.message = HandlerMessage("SEARCH_ERROR"))

\* str.casefold on the city names of the model
casefold(x) == IF x = "Brussels" THEN "brussels" ELSE x

\* services.dedupe_keep_order: the first occurrence of each casefolded name
dedupe_keep_order(items) ==
    SelectSeq(items, LAMBDA x :
        \E i \in 1..Len(items) :
            /\ items[i] = x
            /\ \A j \in 1..(i - 1) : casefold(items[j]) # casefold(x))

\* the city names the geocoder was asked, in call order
CitiesAsked == [i \in 1..Len(CityCalls) |-> CityCalls[i].text[1]]

\* C23: the Location stage deduplicates the slot's city names
\* case-insensitively before geocoding: one geocode call per distinct name,
\* in first-seen order, so "Brussels", "brussels" gives one call and at most
\* one coordinate.
C23_CitiesGeocodedOncePerName ==
    CityCalls # <<>> =>
        /\ CitiesAsked = dedupe_keep_order(slots.cities)
        /\ Len(coords) <= Len(dedupe_keep_order(slots.cities))

(***************************************************************************)
(* services.agent_query_service: the orchestration without the graph       *)
(***************************************************************************)
Ghent == [lat |-> 511, lon |-> 37]

\* services.in_belgium_bbox, in tenths of a degree
in_belgium_bbox(lat, lon) == 495 <= lat /\ lat <= 516 /\ 25 <= lon /\ lon <= 65

\* batch_geocode_city_names(min_conf=70)
MinConf == 70

\* resolve_radius: slots.radius_km or 25.0
resolve_radius(s) == IF Truthy(s.radius_km) THEN s.radius_km.v ELSE DefaultRadiusKm

\* answers of the geocoder to the service
ServiceGeoAnswers ==
    { GeocodeOut("UNKNOWN", Null, Null, 0),
      GeocodeOut("OK", Num(Brussels.lat), Num(Brussels.lon), 100),
      GeocodeOut("OK", Num(Ghent.lat), Num(Ghent.lon), 90),
      GeocodeOut("OK", Num(Paris.lat), Num(Paris.lon), 100) }

\* CityMention: the normalized name and the type
Mention(name, type) == [normalized |-> name, type |-> type]

ServiceMentions ==
    { Mention("Brussels", "city"), Mention("Ghent", "municipality"),
      Mention("Flanders", "region") }

\* extract_cities: the HTTP call raises, or a list of mentions
ExtractAnswers ==
    { [net |-> "timeout", mentions |-> <<>>] }
    \cup { [net |-> "ok", mentions |-> m] : m \in SeqsUpTo(ServiceMentions, MaxCities) }

\* the classify answers the service is run on
ServiceClassifyResponses ==
    { [net |-> "timeout", intent |-> None, slots |-> EmptySlots] }
    \cup { [net |-> "ok", intent |-> i,
            slots |-> [cities |-> <<>>, competitions |-> f[1], venues |-> f[2],
                       radius_km |-> r, sort |-> None]] :
             i \in {"events_near", "list_competitions"}, f \in OracleFilters,
             r \in {Null, Num(500)} }

\* batch_geocode_city_names: the item of one name
CityGeocodeItem(name, geo) ==
    IF /\ geo.status = "OK" /\ geo.lat.k # "null" /\ geo.lon.k # "null"
       /\ in_belgium_bbox(geo.lat.v, geo.lon.v)
       /\ geo.confidence >= MinConf
    THEN [name |-> name, lat |-> geo.lat, lon |-> geo.lon, status |-> "OK"]
    ELSE [name |-> name, lat |-> Null, lon |-> Null, status |-> "UNKNOWN"]

\* one item per case-insensitively distinct name; ans[i] answers the i-th
batch_geocode_city_names(names, ans) ==
    LET distinct == dedupe_keep_order(names)
    IN [i \in 1..Len(distinct) |-> CityGeocodeItem(distinct[i], ans[i])]

\* coords_list of the city branch
coords_of_items(items) ==
    LET ok == SelectSeq(items, LAMBDA it : it.status = "OK" /\ Truthy(it.lat) /\ Truthy(it.lon))
    IN [i \in 1..Len(ok) |-> Coord(ok[i].lat.v, ok[i].lon.v)]

\* for event in all_events: if event.id not in seen_ids: append
RECURSIVE unique_events(_)
unique_events(all_events) ==
    IF all_events = <<>> THEN <<>>
    ELSE LET init == unique_events(SubSeq(all_events, 1, Len(all_events) - 1))
             last == all_events[Len(all_events)]
         IN IF \E i \in 1..Len(init) : init[i].id = last.id THEN init ELSE Append(init, last)

\* an exception leaves the service: the framework answers 500
ServiceRaised(text) == [status |-> 500, error |-> text, message |-> <<>>, fallback |-> FALSE]

ServiceRefused(code) == [status |-> 422, error |-> code, message |-> <<>>, fallback |-> FALSE]

ServiceOk == [status |-> 200, error |-> None, message |-> <<>>, fallback |-> FALSE]

InitService ==
    /\ pc = "service"
    /\ q = <<"a", "b">>
    /\ \E uc \in UserCoords : user_lat = uc[1] /\ user_lon = uc[2]
    /\ limit \in Limits \cup {DefaultLimit}
    /\ FreshState
    /\ obj = NoDateObj
    /\ dr = NoDateRange
    /\ OneRequest

\* what the service leaves behind: the decision, the date range, the
\* coordinates, the store calls, the events and the HTTP answer
ServiceEnds(dec, range, cs, log, events, resp) ==
    /\ intent' = dec.intent
    /\ slots' = dec.slots
    /\ radius_km' = IF dec.raised THEN radius_km ELSE resolve_radius(dec.slots)
    /\ date_status' = range[1]
    /\ date_from' = range[2]
    /\ date_to' = range[3]
    /\ coords' = cs
    /\ searched' = log
    /\ results' = events
    /\ response' = resp
    /\ pc' = "DONE"
    /\ UNCHANGED <<suspended, agent, error, error_message, processing_steps, calls, obj, dr,
                   classified, geocoded>>

NoRange == <<None, Null, Null>>

\* the search loop and what follows it (services.py 255-283)
service_search(dec, range, cs) ==
    \E down \in SUBSET (1..Len(cs)) :
      LET radius == resolve_radius(dec.slots)
          raises(i) == search_raises(i, down, range[2], range[3],
                                     dec.slots.competitions, dec.slots.venues)
          rows == [i \in 1..Len(cs) |->
                     IF raises(i) THEN <<>>
                     ELSE find_events_near_db(cs[i].lat, cs[i].lon, radius,
                                              range[2], range[3], limit)]
          failing == { i \in 1..Len(cs) : raises(i) }
          last == IF failing = {} THEN Len(cs)
                  ELSE CHOOSE i \in failing : \A j \in failing : i <= j
          log == [i \in 1..last |-> SearchCall(cs[i], radius, raises(i), rows[i])]
          unique == unique_events(Concat(rows))
      IN IF failing # {}
         THEN ServiceEnds(dec, range, cs, log, <<>>, ServiceRaised("store"))
         ELSE ServiceEnds(dec, range, cs, log, Take(sorted(unique, "distance"), limit),
                          ServiceOk)

\* resolve_coords_from_text_or_cities, then the search
service_locate(dec, range) ==
    IF FromUser(user_lat, user_lon)
    THEN service_search(dec, range, <<Coord(user_lat.v, user_lon.v)>>)
    ELSE \E ext \in ExtractAnswers :
           IF ext.net # "ok"
           THEN ServiceEnds(dec, range, <<>>, <<>>, <<>>, ServiceRaised(ext.net))
           ELSE LET picked == SelectSeq(ext.mentions,
                                        LAMBDA m : m.type \in {"city", "municipality"})
                    city_names == [i \in 1..Len(picked) |-> picked[i].normalized]
                    n == Len(dedupe_keep_order(city_names))
                IN \E ans \in [1..n -> ServiceGeoAnswers] :
                     LET coords_list == coords_of_items(batch_geocode_city_names(city_names, ans))
                     IN IF coords_list # <<>>
                        THEN service_search(dec, range, coords_list)
                        ELSE \E geo \in ServiceGeoAnswers :
                               IF GeoUsable(geo)
                               THEN service_search(dec, range,
                                                   <<Coord(geo.lat.v, geo.lon.v)>>)
                               ELSE ServiceEnds(dec, range, <<>>, <<>>, <<>>,
                                                ServiceRefused("NO_LOCATION"))

agent_query_service ==
    /\ pc = "service"
    /\ \E resp \in ServiceClassifyResponses :
         LET dec == classify_intent(resp)
         IN IF dec.raised
            THEN ServiceEnds(dec, NoRange, <<>>, <<>>, <<>>, ServiceRaised(dec.exc))
            ELSE IF dec.intent = "list_competitions"
            THEN ServiceEnds(dec, NoRange, <<>>, <<>>, list_competitions_db, ServiceOk)
            ELSE \E o \in PipelineDateObjs :
                   LET d == resolve_date_range(o)
                       range == IF d.raised THEN NoRange
                                ELSE IF d.status = "NO_TIME"
                                THEN <<d.status, Iso(Today), Iso(Today)>>
                                ELSE IF d.status = "OK"
                                THEN <<d.status, d.date_from, d.date_to>>
                                ELSE <<d.status, Null, Null>>
                   IN IF d.raised
                      THEN ServiceEnds(dec, range, <<>>, <<>>, <<>>, ServiceRaised(d.exc))
                      ELSE IF d.status = "UNCLEAR"
                              \/ (d.status = "OK" /\ (range[2].k = "null" \/ range[3].k = "null"))
                      THEN ServiceEnds(dec, range, <<>>, <<>>, <<>>,
                                       ServiceRefused("UNCLEAR_TIME"))
                      ELSE service_locate(dec, range)

NextService == agent_query_service

SpecService == InitService /\ [][NextService]_vars

\* the service answered 200 with events
ServiceAnswered ==
    pc = "DONE" /\ response.status = 200 /\ intent # "list_competitions"

\* C25: an event id returned by the searches of two coordinates appears once
\* in the response, and the occurrence kept is the one with the smaller
\* distance, whatever the order of the coordinates.
C25_ServiceKeepsNearestOccurrence ==
    ServiceAnswered =>
        \A i \in 1..Len(results) :
            /\ \A j \in 1..Len(results) : results[j].id = results[i].id => i = j
            /\ \A k \in 1..Len(AllRows) : AllRows[k].id = results[i].id =>
                   results[i].distance_km <= AllRows[k].distance_km

(***************************************************************************)
(* Location stage: validity of geocoded coordinates                        *)
(***************************************************************************)
\* C26: every coordinate the Location stage takes from the geocoder (city
\* slot or whole query) lies within [-90,90] x [-180,180] and inside the
\* Belgium bounding box; an answer outside the box is treated as unresolved.
C26_GeocodedCoordsInsideRegion ==
    ~FromUser(user_lat, user_lon) =>
        \A i \in 1..Len(coords) :
            /\ 0 - 900 <= coords[i].lat /\ coords[i].lat <= 900
            /\ 0 - 1800 <= coords[i].lon /\ coords[i].lon <= 1800
            /\ in_belgium_bbox(coords[i].lat, coords[i].lon)

C28_OkAnswerHasBothDates ==
    (pc = "returned" /\ ~dr.raised /\ dr.status = "OK") =>
        (dr.date_from.k # "null" /\ dr.date_to.k # "null")

(***************************************************************************)
(* Search and Post on a store with more events than one query returns      *)
(***************************************************************************)
MaxEvents == 51

\* venue i lies i tenths of a degree east of Brussels
SeasonVenues ==
    [i \in 1..MaxEvents |-> [id |-> i, name |-> "venue", lat |-> Brussels.lat,
                             lon |-> Brussels.lon + i]]

\* one event per venue, today; the farther the venue the earlier the start
SeasonEvents ==
    [i \in 1..MaxEvents |-> [id |-> i, day |-> Today, datetime_local |-> 2 * MaxEvents - i,
                             competition_id |-> 1, venue_id |-> i]]

RankLimits == {1, DefaultLimit, SearchLimit + 1}

InitRank ==
    /\ pc = "search"
    /\ q = <<"a", "b">>
    /\ user_lat = Null
    /\ user_lon = Null
    /\ limit \in RankLimits
    /\ intent = "events_in_cities"
    /\ coords \in SeqsUpTo({Brussels, Ghent}, MaxCities) \ { <<>> }
    /\ \E r \in OracleRadii \ {Num(0)}, s \in OracleSorts \cup {"distance"} :
         /\ slots = [cities |-> [i \in 1..Len(coords) |-> "Brussels"],
                     competitions |-> <<>>, venues |-> <<>>, radius_km |-> r, sort |-> s]
         /\ radius_km = IF Truthy(r) THEN r.v ELSE DefaultRadiusKm
    /\ date_status = "NO_TIME"
    /\ date_from = Iso(Today)
    /\ date_to = Iso(Today)
    /\ results = <<>>
    /\ error = None
    /\ error_message = <<>>
    /\ geocoded = [i \in 1..Len(coords) |->
                     GeocodeCall("city", <<"Brussels">>,
                                 GeocodeOut("OK", Num(coords[i].lat), Num(coords[i].lon), 100))]
    /\ processing_steps =
         << Step("classify_intent", <<>>), Step("intent_classified", <<"events_in_cities">>),
            Step("resolve_dates", <<>>), Step("dates_default", <<>>),
            Step("resolve_location", <<>>) >>
         \o [i \in 1..Len(coords) |-> Step("location_from_city", <<"Brussels">>)]
         \o << Step("location_resolved", <<ToString(Len(coords))>>) >>
    /\ calls = [NoCalls EXCEPT !.classify = 1, !.dates = 1, !.geocode = Len(coords)]
    /\ classified = [net |-> "ok", intent |-> intent, slots |-> slots]
    /\ response = NoResponse
    /\ searched = <<>>
    /\ obj = NoDateObj
    /\ dr = NoDateRange
    /\ OneRequest

\* n_search and n_post when no call raises, on the season's store: one
\* query per coordinate with limit 50, dedupe, sort, slice
search_and_post ==
    /\ pc = "search"
    /\ LET search_coords == search_slice(get_coords_for_search(coords))
           rows == [i \in 1..Len(search_coords) |->
                      find_events_in(SeasonEvents, SeasonVenues, search_coords[i].lat,
                                     search_coords[i].lon, radius_km, date_from, date_to,
                                     SearchLimit)]
           best == dedupe_by_min(Concat(rows))
           sort == IF slots.sort # None THEN slots.sort ELSE "distance"
           final == Take(sorted_by_rank(best, sort), limit)
       IN /\ searched' = [i \in 1..Len(search_coords) |->
                            SearchCall(search_coords[i], radius_km, FALSE, rows[i])]
          /\ calls' = [calls EXCEPT !.find_near = @ + Len(search_coords)]
          /\ results' = final
          /\ processing_steps' = processing_steps
               \o <<Step("search_events", <<>>)>>
               \o [i \in 1..Len(rows) |-> Step("search_coord", <<ToString(Len(rows[i]))>>)]
               \o << Step("search_completed", <<ToString(Len(best))>>),
                     Step("post_process", <<>>),
                     Step("post_completed", <<ToString(Len(final))>>) >>
    /\ pc' = should_end_after_post(error)
    /\ UNCHANGED <<suspended, agent, intent, slots, date_from, date_to, date_status, coords,
                   radius_km, error, error_message, response, obj, dr, classified, geocoded>>

NextRank ==
    \/ search_and_post
    \/ agent_query

SpecRank == InitRank /\ [][NextRank]_vars

\* the season's events inside the date bounds and within the radius of some
\* searched coordinate
Matching ==
    { i \in 1..MaxEvents :
        /\ (Truthy(date_from) => SeasonEvents[i].day >= date_from.v)
        /\ (Truthy(date_to) => SeasonEvents[i].day <= date_to.v)
        /\ \E c \in 1..Len(searched) :
               distance_km(searched[c].lat, searched[c].lon, SeasonVenues[i]) <= radius_km }

\* the key an event is ranked by: start time, or distance to the nearest
\* searched coordinate
RankKey(i) ==
    IF slots.sort = "time" THEN SeasonEvents[i].datetime_local
    ELSE LET ds == { distance_km(searched[c].lat, searched[c].lon, SeasonVenues[i]) :
                        c \in 1..Len(searched) }
         IN CHOOSE d \in ds : \A e \in ds : d <= e

Returned == { results[k].id : k \in 1..Len(results) }

\* C29: a run that ends without error returns the first `limit` events,
\* under the requested sort key, of all store events matching the filters
\* within the radius of a searched coordinate: every returned event matches,
\* the list is as long as the limit and the matches allow, and no omitted
\* match ranks before a returned event.
C29_ResultsAreFirstOfAllMatches ==
    (pc \in {"END", "DONE"} /\ error = None) =>
        /\ Returned \subseteq Matching
        /\ Len(results) = Min(limit, Cardinality(Matching))
        /\ \A i \in Matching \ Returned : \A j \in Returned : RankKey(j) <= RankKey(i)

(***************************************************************************)
(* Two requests on one event loop (api.py agent_query, graph.py GRAPH)     *)
(***************************************************************************)
\* the AgentState agent_query constructs for a request, at the graph's entry,
\* in the order of frame
FreshFrame(qq, lat, lon, lim) ==
    << "classify", qq, lat, lon, lim, None, EmptySlots, Null, Null, None, <<>>,
       DefaultRadiusKm, <<>>, None, <<>>, <<>>, NoCalls, NoResponse, NoDateObj,
       NoDateRange, NoClassifyResponse, <<>>, <<>> >>

\* request r asks with limit r from its own coordinate, or without one
ConcurrentInputs(r) ==
    { <<qq, uc[1], uc[2], r>> :
        qq \in { <<"a", "b">>, <<"a">> },
        uc \in { <<Num(Brussels.lat + r), Num(Brussels.lon)>>, <<Null, Null>> } }

\* the classify answers of the two-request specification
ConcurrentClassifyResponses ==
    { [net |-> "timeout", intent |-> None, slots |-> EmptySlots] }
    \cup { [net |-> "ok", intent |-> i, slots |-> EmptySlots] :
             i \in { "events_near", "list_competitions" } }

InitConcurrent ==
    /\ running = 1
    /\ pc = "classify"
    /\ \E i \in ConcurrentInputs(1) :
         q = i[1] /\ user_lat = i[2] /\ user_lon = i[3] /\ limit = i[4]
    /\ FreshState
    /\ obj = NoDateObj
    /\ dr = NoDateRange
    /\ \E i \in ConcurrentInputs(2) : parked = FreshFrame(i[1], i[2], i[3], i[4])

n_classify_concurrent == classify_node(ConcurrentClassifyResponses)

switch_SharedTrace ==
    /\ parked[1] # "DONE"
    /\ pc \in Nodes \cup {"DONE"}
    /\ running' = 3 - running
    /\ parked' = frame
    /\ pc' = parked[1]
    /\ q' = parked[2]
    /\ user_lat' = parked[3]
    /\ user_lon' = parked[4]
    /\ limit' = parked[5]
    /\ intent' = parked[6]
    /\ slots' = parked[7]
    /\ date_from' = parked[8]
    /\ date_to' = parked[9]
    /\ date_status' = parked[10]
    /\ coords' = parked[11]
    /\ radius_km' = parked[12]
    /\ results' = parked[13]
    /\ error' = parked[14]
    /\ error_message' = parked[15]
    /\ processing_steps' = processing_steps
    /\ calls' = parked[17]
    /\ response' = parked[18]
    /\ obj' = parked[19]
    /\ dr' = parked[20]
    /\ classified' = parked[21]
    /\ geocoded' = parked[22]
    /\ searched' = parked[23]

\* the event loop suspends the running coroutine at an await (between two
\* nodes, or when it has answered) and resumes the other one: each coroutine
\* keeps its own `state` object
switch ==
    /\ parked[1] # "DONE"
    /\ pc \in Nodes \cup {"DONE"}
    /\ running' = 3 - running
    /\ parked' = frame
    /\ pc' = parked[1]
    /\ q' = parked[2]
    /\ user_lat' = parked[3]
    /\ user_lon' = parked[4]
    /\ limit' = parked[5]
    /\ intent' = parked[6]
    /\ slots' = parked[7]
    /\ date_from' = parked[8]
    /\ date_to' = parked[9]
    /\ date_status' = parked[10]
    /\ coords' = parked[11]
    /\ radius_km' = parked[12]
    /\ results' = parked[13]
    /\ error' = parked[14]
    /\ error_message' = parked[15]
    /\ processing_steps' = parked[16]
    /\ calls' = parked[17]
    /\ response' = parked[18]
    /\ obj' = parked[19]
    /\ dr' = parked[20]
    /\ classified' = parked[21]
    /\ geocoded' = parked[22]
    /\ searched' = parked[23]

NextConcurrent ==
    \/ n_classify_concurrent
    \/ n_dates
    \/ n_location
    \/ n_search
    \/ n_post
    \/ n_error_handler
    \/ agent_query
    \/ switch

SpecConcurrent == InitConcurrent /\ [][NextConcurrent]_vars

\* the inputs of the suspended request
ParkedInputs == <<parked[2], parked[3], parked[4], parked[5]>>

\* the running request's state is a state of a run of its own: its inputs
\* are the ones it was created with, its trace is a path of the graph, and
\* its coordinates are its own caller's
OwnRun ==
    /\ agent \in ConcurrentInputs(running)
    /\ ParkedInputs \in ConcurrentInputs(3 - running)
    /\ C1_ShortQueryRejected
    /\ C3_ListCompetitionsSkipsDatesAndLocation
    /\ C4_StagesInOrder
    /\ C5_ErrorStateShape
    /\ C11_CallerCoordinateTrusted
    /\ \A tool \in DOMAIN calls : calls[tool] <= 1
    /\ Len(searched) = calls.find_near
    /\ Len(geocoded) = calls.geocode

====
